---- MODULE Spec2Model ----
(***************************************************************************)
(* State-machine model of the AI Visibility Control service:               *)
(*   main.py      - the two POST handlers (/process, /analyze)             *)
(*   processor.py - ProcessingMode, ImageProcessor, process_face_image     *)
(*   detector.py  - FaceDetector.detect_faces / get_processing_zones       *)
(*                                                                         *)
(* Images are single-channel (luminance) pixel grids stored row-major.     *)
(* The OpenCV cascades are external: every detection they may return       *)
(* (boxes inside the searched region, not smaller than minSize) is an      *)
(* input drawn from a bounded set.  cv2.bilateralFilter is modelled as the *)
(* rounded-down mean over its k x k window (uniform weights), the RNG      *)
(* draw of np.random.normal as a bounded integer field selected by a seed  *)
(* and the number of the draw.                                             *)
(***************************************************************************)
EXTENDS Integers, Sequences, FiniteSets, TLC

(* ------------------------------- state --------------------------------- *)

VARIABLES
    req,        \* the call: endpoint, content_type, mode, len, decodable, seed
    pc,         \* the position in the handler
    img,        \* the decoded image (NoImage before decoding)
    faces,      \* detect_faces' result
    all_zones,  \* the flattened zone list
    run,        \* the process_image call: ok, copied, imgs (working images)
    result_img, \* process_image's result
    ret,        \* process_face_image's return value
    response,   \* what the caller receives
    calls       \* the library stages invoked so far, in order

vars == <<req, pc, img, faces, all_zones, run, result_img, ret, response, calls>>

Max(a, b) == IF a >= b THEN a ELSE b
Min(a, b) == IF a <= b THEN a ELSE b

(* ------------------------------ constants ------------------------------ *)

pad == 5
feather_size == 3
MIN_FACE == 30
MIN_EYE == 15
MAX_FILE_SIZE == 10 * 1024 * 1024
ALLOWED_FORMATS == {"image/jpeg", "image/jpg", "image/png"}
valid_modes == {"social_safe", "genai_safe", "max_privacy"}

(* ------------------------------- images -------------------------------- *)

\* cv2.imdecode returning None
NoImage == [w |-> 0, h |-> 0, px |-> << >>]

\* img[y, x] of a decoded image (0-based coordinates)
Pix(im, px_x, px_y) == im.px[px_y * im.w + px_x + 1]

\* Python/numpy basic-slice bound: a negative bound counts from the end and
\* every bound is clipped to [0, n]
SliceBound(i, n) == IF i < 0 THEN Max(i + n, 0) ELSE Min(i, n)

(* --------------------------- ProcessingMode ---------------------------- *)

\* noise_strength is kept in thousandths (0.02 -> 20)
presets ==
    [social_safe |-> [name |-> "Social Safe", blur_radius |-> 3,
                      noise_strength |-> 20, asymmetry_shift |-> 1],
     genai_safe  |-> [name |-> "GenAI Safe", blur_radius |-> 5,
                      noise_strength |-> 50, asymmetry_shift |-> 2],
     max_privacy |-> [name |-> "Max Privacy", blur_radius |-> 7,
                      noise_strength |-> 80, asymmetry_shift |-> 3]]

\* a registry lookup that falls back to the first entry
get_preset_first_entry(mode_name) ==
    IF mode_name \in DOMAIN presets THEN presets[mode_name]
    ELSE presets["social_safe"]

\* presets.get(mode, presets['genai_safe'])
get_preset(mode_name) ==
    IF mode_name \in DOMAIN presets THEN presets[mode_name]
    ELSE presets["genai_safe"]

(* --------------------------- ImageProcessor ---------------------------- *)

\* the left corner without the clamp at 0
x_start_unclamped(im, zone) == zone.bbox[1] - pad

\* lines 67-70: the padded and clamped corners of a zone
x_start(im, zone) == Max(0, zone.bbox[1] - pad)
y_start(im, zone) == Max(0, zone.bbox[2] - pad)
x_end(im, zone) == Min(im.w, zone.bbox[1] + zone.bbox[3] + pad)
y_end(im, zone) == Min(im.h, zone.bbox[2] + zone.bbox[4] + pad)

\* result[y_start:y_end, x_start:x_end]: the pixels the slice selects
CropOf(im, zone) ==
    LET cx0 == SliceBound(x_start(im, zone), im.w)
        cx1 == SliceBound(x_end(im, zone), im.w)
        cy0 == SliceBound(y_start(im, zone), im.h)
        cy1 == SliceBound(y_end(im, zone), im.h)
    IN  [x0 |-> cx0, y0 |-> cy0, w |-> Max(0, cx1 - cx0), h |-> Max(0, cy1 - cy0)]

\* zone_img.size
CropSize(c) == c.w * c.h

InCrop(c, px_x, px_y) ==
    /\ c.x0 <= px_x /\ px_x < c.x0 + c.w
    /\ c.y0 <= px_y /\ px_y < c.y0 + c.h

\* cv2 BORDER_REFLECT_101 (gfedcb|abcdefgh|gfedcba), the default border
Reflect101(i, n) ==
    IF n = 1 THEN 0
    ELSE LET j == i % (2 * n - 2) IN IF j >= n THEN 2 * n - 2 - j ELSE j

\* cv2 BORDER_REFLECT (fedcba|abcdefgh|hgfedcb)
ReflectEdge(i, n) ==
    LET j == i % (2 * n) IN IF j >= n THEN 2 * n - 1 - j ELSE j

\* _apply_blur: kernel diameter k (made odd), window mean inside the crop
BlurKernel(mode) ==
    IF mode.blur_radius % 2 = 0 THEN mode.blur_radius + 1 ELSE mode.blur_radius

\* the sum of one window row; `base` is the offset in px of the crop's
\* first pixel of that row, cw the crop's width
RECURSIVE RowSum(_, _, _, _, _, _)
RowSum(px, base, cw, lx, r, d) ==
    IF d > r THEN 0
    ELSE px[base + Reflect101(lx + d, cw) + 1] + RowSum(px, base, cw, lx, r, d + 1)

RECURSIVE WindowSum(_, _, _, _, _, _)
WindowSum(res, c, lx, ly, r, d) ==
    IF d > r THEN 0
    ELSE RowSum(res.px, (c.y0 + Reflect101(ly + d, c.h)) * res.w + c.x0,
                c.w, lx, r, -r)
         + WindowSum(res, c, lx, ly, r, d + 1)

apply_blur(res, c, mode, lx, ly) ==
    LET k == BlurKernel(mode)
    IN  WindowSum(res, c, lx, ly, k \div 2, -(k \div 2)) \div (k * k)

\* one sample of np.random.normal(0, noise_strength * 255, shape): the draw
\* number `draw` of the generator seeded `seed`, bounded by its deviation
NoiseAmp(mode) == (mode.noise_strength * 255) \div 1000

NoiseSample(seed, draw, mode, lx, ly) ==
    LET a == NoiseAmp(mode)
    IN  ((seed * 7 + draw * 13 + lx * 5 + ly * 11 + lx * ly) % (2 * a + 1)) - a

\* _apply_luminance_noise: np.clip(l_channel + noise, 0, 255)
apply_luminance_noise(res, c, mode, seed, draw, lx, ly) ==
    Max(0, Min(255, apply_blur(res, c, mode, lx, ly)
                    + NoiseSample(seed, draw, mode, lx, ly)))

\* _apply_asymmetry: translation by `shift`, horizontal for eyes, vertical
\* otherwise, borders filled by reflection
apply_asymmetry(res, c, zone, mode, seed, draw, lx, ly) ==
    IF zone.name = "eye"
    THEN apply_luminance_noise(res, c, mode, seed, draw,
                               ReflectEdge(lx - mode.asymmetry_shift, c.w), ly)
    ELSE apply_luminance_noise(res, c, mode, seed, draw,
                               lx, ReflectEdge(ly - mode.asymmetry_shift, c.h))

\* a ramp that starts at 1/feather_size instead of 0
EdgeFactor_from_one(p, n) ==
    (IF p < feather_size THEN p + 1 ELSE feather_size)
    * (IF n - 1 - p < feather_size THEN n - p ELSE feather_size)

\* _feather_edges, lines 141-149: the mask as a numerator over
\* feather_size^4; row i and row h-1-i are each multiplied by i/feather_size
EdgeFactor(p, n) ==
    (IF p < feather_size THEN p ELSE feather_size)
    * (IF n - 1 - p < feather_size THEN n - 1 - p ELSE feather_size)

MaskDen == feather_size * feather_size * feather_size * feather_size

feather_mask(c, lx, ly) == EdgeFactor(ly, c.h) * EdgeFactor(lx, c.w)

\* mask[i, :] with i = feather_size - 1 raises IndexError on a crop with
\* fewer than feather_size rows (or columns)
FeatherRaises(c) == c.h < feather_size \/ c.w < feather_size

\* line 155: (processed * mask + original * (1 - mask)).astype(np.uint8)
feather_edges(original, processed, m) ==
    (processed * m + original * (MaskDen - m)) \div MaskDen

\* the fully transformed pixel of one zone (lines 78-80)
zone_processed(res, c, zone, mode, seed, draw, lx, ly) ==
    apply_asymmetry(res, c, zone, mode, seed, draw, lx, ly)

\* a loop body that crops the zone from the input image img instead of
\* the working image
ProcessZone_from_input(res, zone, mode, seed, draw) ==
    LET c == CropOf(res, zone)
    IN  IF CropSize(c) = 0 THEN res
        ELSE [res EXCEPT !.px = SubSeq(
                [i \in 1..(res.w * res.h) |->
                    LET px_x == (i - 1) % res.w
                        px_y == (i - 1) \div res.w
                    IN  IF InCrop(c, px_x, px_y)
                        THEN feather_edges(
                                 img.px[i],
                                 zone_processed(img, c, zone, mode, seed, draw,
                                                px_x - c.x0, px_y - c.y0),
                                 feather_mask(c, px_x - c.x0, px_y - c.y0))
                        ELSE res.px[i]], 1, res.w * res.h)]

\* lines 64-86 for one zone: the working image after the zone
ProcessZone(res, zone, mode, seed, draw) ==
    LET c == CropOf(res, zone)
    IN  IF CropSize(c) = 0 THEN res
        ELSE [res EXCEPT !.px = SubSeq(   \* the grid as a plain sequence
                [i \in 1..(res.w * res.h) |->
                    LET px_x == (i - 1) % res.w
                        px_y == (i - 1) \div res.w
                    IN  IF InCrop(c, px_x, px_y)
                        THEN feather_edges(
                                 res.px[i],
                                 zone_processed(res, c, zone, mode, seed, draw,
                                                px_x - c.x0, px_y - c.y0),
                                 feather_mask(c, px_x - c.x0, px_y - c.y0))
                        ELSE res.px[i]], 1, res.w * res.h)]


\* whether the loop body raises at this zone: its crop is not empty and is
\* too small for the feather mask
ZoneRaises(res, zone) ==
    LET c == CropOf(res, zone) IN CropSize(c) # 0 /\ FeatherRaises(c)

\* the loop of lines 64-86 from zone number n on.  imgs is the list of the
\* working images so far (imgs[1] the copy, imgs[j + 1] after zone j);
\* draws[j] is the number of the RNG draw zone j receives.
RECURSIVE ProcessFrom(_, _, _, _, _, _)
ProcessFrom(imgs, zones, draws, mode, seed, n) ==
    IF n > Len(zones) THEN [ok |-> TRUE, imgs |-> imgs]
    ELSE IF ZoneRaises(imgs[n], zones[n]) THEN [ok |-> FALSE, imgs |-> imgs]
    ELSE ProcessFrom(
             Append(imgs, ProcessZone(imgs[n], zones[n], mode, seed, draws[n])),
             zones, draws, mode, seed, n + 1)

\* a process_image without the copy: the loop writes to the caller's array
process_image_in_place(im, zones, draws, mode, seed) ==
    LET r == ProcessFrom(<<im>>, zones, draws, mode, seed, 1)
    IN  [ok |-> r.ok, copied |-> FALSE, imgs |-> r.imgs]

\* process_image: result = img.copy(), the loop, return result.
\*   ok     - FALSE when the loop raised IndexError
\*   copied - the loop wrote to a copy, so the caller's array is untouched
\*   imgs   - the working images; the last one is the returned image
process_image(im, zones, draws, mode, seed) ==
    LET r == ProcessFrom(<<im>>, zones, draws, mode, seed, 1)
    IN  [ok |-> r.ok, copied |-> TRUE, imgs |-> r.imgs]

NoRun == [ok |-> FALSE, copied |-> FALSE, imgs |-> << >>]

(* ----------------------------- FaceDetector ---------------------------- *)

\* the largest power of two not above n (n >= 1)
RECURSIVE Pow2Floor(_)
Pow2Floor(n) == IF n < 2 THEN 1 ELSE 2 * Pow2Floor(n \div 2)

\* int(n * 0.3) in binary64.  The double 0.3 is 3/10 - 2/(10 * 2^54); the
\* product rounds to the exact value whenever 3n/10 is an integer, so the
\* truncation is the integer quotient.
int_times_030(n) == (3 * n) \div 10

\* int(n * 0.35) in binary64.  The double 0.35 is 7/20 - 8/(20 * 2^54).  When
\* 35n/100 is an integer q in [2^k, 2^(k+1)), the exact product q - 8n/(20 * 2^54)
\* lies more than half a unit in the last place below q iff 8n > 40 * 2^k,
\* and then rounds to the double just below q, which truncates to q - 1.
int_times_035(n) ==
    LET q == (35 * n) \div 100
    IN  IF (35 * n) % 100 = 0 /\ q > 0 /\ 8 * n > 40 * Pow2Floor(q)
        THEN q - 1
        ELSE q

\* lines 69-73
nose_bridge_of(bbox) ==
    << bbox[1] + int_times_035(bbox[3]), bbox[2] + int_times_030(bbox[4]),
       int_times_030(bbox[3]), int_times_030(bbox[4]) >>

\* lines 48-75 for one face box and the eye boxes the eye cascade returned
\* for its crop (crop-local coordinates)
face_region(bbox, eyes) ==
    [bbox |-> bbox,
     eyes |-> [j \in 1..Len(eyes) |->
                 << bbox[1] + eyes[j][1], bbox[2] + eyes[j][2],
                    eyes[j][3], eyes[j][4] >>],
     nose_bridge |-> nose_bridge_of(bbox)]

\* detect_faces; cascade[i] = [bbox, eyes] is what the two cascades return
detect_faces(cascade) ==
    IF Len(cascade) = 0 THEN << >>
    ELSE [i \in 1..Len(cascade) |-> face_region(cascade[i].bbox, cascade[i].eyes)]

\* a get_processing_zones that adds the nose bridge only to a face with eyes
get_processing_zones_needs_eyes(face) ==
    [j \in 1..Len(face.eyes) |-> [name |-> "eye", bbox |-> face.eyes[j]]]
    \o (IF Len(face.eyes) > 0
        THEN << [name |-> "nose_bridge", bbox |-> face.nose_bridge] >>
        ELSE << >>)

\* get_processing_zones: the eyes, then the nose bridge when the entry is
\* truthy (a non-empty tuple)
get_processing_zones(face) ==
    [j \in 1..Len(face.eyes) |-> [name |-> "eye", bbox |-> face.eyes[j]]]
    \o (IF Len(face.nose_bridge) > 0
        THEN << [name |-> "nose_bridge", bbox |-> face.nose_bridge] >>
        ELSE << >>)

\* lines 187-190 of processor.py: all_zones.extend(zones) for every face
RECURSIVE collect_zones(_, _)
collect_zones(fs, n) ==
    IF n > Len(fs) THEN << >>
    ELSE get_processing_zones(fs[n]) \o collect_zones(fs, n + 1)

(* ------------------------- bounds and inputs --------------------------- *)

ImgW == 50          \* width of the uploaded test image
ImgH == 30          \* height of the uploaded test image
MaxFaces == 2       \* faces the face cascade may return
MaxEyes == 1        \* eyes the eye cascade may return per face
MaxFaceSide == 181  \* largest face box side given to detect_faces directly

Seeds == {1}
ModeNames == {"social_safe", "genai_safe", "max_privacy", "retro"}
ContentTypes == {"image/png", "text/plain"}
UploadLens == {MAX_FILE_SIZE, MAX_FILE_SIZE + 1}

TestPixel(px_x, px_y) == (17 * px_x + 29 * px_y + 3 * px_x * px_y) % 256

TestImage(iw, ih) ==
    [w |-> iw, h |-> ih,
     px |-> [i \in 1..(iw * ih) |-> TestPixel((i - 1) % iw, (i - 1) \div iw)]]

\* what the cascades may return for an image: face boxes of the minimum
\* size at the left and right image edge, eye boxes of the minimum size
\* inside the face crop
FaceCandidates(im) ==
    IF im.w < MIN_FACE \/ im.h < MIN_FACE THEN {}
    ELSE { <<fx, 0, MIN_FACE, MIN_FACE>> : fx \in {0, im.w - MIN_FACE} }

EyeCandidates == << <<0, 12, MIN_EYE, MIN_EYE>>, <<15, 5, MIN_EYE, MIN_EYE>> >>

EyeLists ==
    { SubSeq(EyeCandidates, 1, n) : n \in 0..Min(MaxEyes, Len(EyeCandidates)) }

Detections(im) ==
    UNION { { d \in [1..n -> [bbox : FaceCandidates(im), eyes : EyeLists]] :
                \A i, j \in 1..n : i # j => d[i].bbox # d[j].bbox }
            : n \in 0..MaxFaces }

(* ------------------------------ responses ------------------------------ *)

NoBytes == [format |-> "", quality |-> 0, w |-> 0, h |-> 0]
NoSettings == [blur_radius |-> 0, noise_strength |-> 0, asymmetry_shift |-> 0]
NoMetadata ==
    [faces_processed |-> 0, zones_modified |-> 0, mode |-> "", settings |-> NoSettings]
NoReturn == [bytes |-> NoBytes, metadata |-> NoMetadata]
NoJson == [faces_detected |-> 0, processable |-> FALSE, width |-> 0, height |-> 0]

\* status 0: nothing received yet.  kind: "http" (a status and a detail),
\* "return" (process_face_image returned to a direct caller), "raise" (it
\* raised to a direct caller; detail is the exception class and message)
NoResponse ==
    [kind |-> "", status |-> 0, detail |-> "", body |-> NoBytes,
     metadata |-> NoMetadata, json |-> NoJson]

HttpError(status, detail) ==
    [NoResponse EXCEPT !.kind = "http", !.status = status, !.detail = detail]

(* ----------------------------- exceptions ------------------------------ *)

ValueError(msg) == [cls |-> "ValueError", status |-> 0, msg |-> msg]
IndexError(msg) == [cls |-> "IndexError", status |-> 0, msg |-> msg]
HTTPException(status, msg) == [cls |-> "HTTPException", status |-> status, msg |-> msg]

\* main.py 132-143: the except clauses of process_image, tried in order.
\* HTTPException derives from Exception and not from ValueError.
process_except(e) ==
    IF e.cls = "ValueError" THEN HttpError(400, e.msg)
    ELSE HttpError(500, "Internal processing error. Please try again.")

\* main.py 188-192: the except clauses of analyze_image
analyze_except(e) ==
    IF e.cls = "ValueError" THEN HttpError(400, e.msg)
    ELSE HttpError(500, "Analysis failed")

\* an exception leaving process_face_image or the try block of a handler
Raised(e) ==
    IF req.endpoint = "process" THEN process_except(e)
    ELSE IF req.endpoint = "analyze" THEN analyze_except(e)
    ELSE [NoResponse EXCEPT !.kind = "raise", !.detail = e.msg]

(* ------------------------------ the service ---------------------------- *)

\* POST /process, POST /analyze (no mode parameter) and direct calls of
\* process_face_image(img_bytes, mode_name)
Requests ==
    [endpoint : {"process"}, content_type : ContentTypes, mode : ModeNames,
     len : UploadLens, decodable : BOOLEAN, seed : Seeds]
    \cup
    [endpoint : {"analyze"}, content_type : ContentTypes, mode : {"genai_safe"},
     len : UploadLens, decodable : BOOLEAN, seed : Seeds]
    \cup
    [endpoint : {"direct"}, content_type : {""}, mode : {"retro"},
     len : {MAX_FILE_SIZE}, decodable : BOOLEAN, seed : Seeds]

Blank ==
    /\ img = NoImage
    /\ faces = << >>
    /\ all_zones = << >>
    /\ run = NoRun
    /\ result_img = NoImage
    /\ ret = NoReturn
    /\ response = NoResponse
    /\ calls = << >>

Init ==
    /\ req \in Requests
    /\ pc = IF req.endpoint = "direct" THEN "decode" ELSE "start"
    /\ Blank

\* cv2.imdecode(np.frombuffer(img_bytes)): the image the bytes hold, or None
imdecode(r) == IF r.decodable THEN TestImage(ImgW, ImgH) ELSE NoImage

\* cv2.imencode('.jpg', result_img, [cv2.IMWRITE_JPEG_QUALITY, 95])
imencode(im) == [format |-> ".jpg", quality |-> 95, w |-> im.w, h |-> im.h]

DrawNumbers(zones) == [j \in 1..Len(zones) |-> j]

\* main.py 85-98: the two checks made before the try block
ProcessValidate ==
    /\ pc = "start" /\ req.endpoint = "process"
    /\ IF req.content_type \notin ALLOWED_FORMATS
       THEN /\ response' = HttpError(400, "Unsupported format")
            /\ pc' = "done"
       ELSE IF req.mode \notin valid_modes
       THEN /\ response' = HttpError(400, "Invalid mode")
            /\ pc' = "done"
       ELSE /\ response' = response
            /\ pc' = "read"
    /\ UNCHANGED <<req, img, faces, all_zones, run, result_img, ret, calls>>

\* main.py 101-109: the size check, made inside the try block
ProcessRead ==
    /\ pc = "read" /\ req.endpoint = "process"
    /\ IF req.len > MAX_FILE_SIZE
       THEN /\ response' = Raised(HTTPException(413, "File too large. Max size: 10MB"))
            /\ pc' = "done"
       ELSE /\ response' = response
            /\ pc' = "decode"
    /\ UNCHANGED <<req, img, faces, all_zones, run, result_img, ret, calls>>

\* main.py 159-163
AnalyzeRead ==
    /\ pc = "start" /\ req.endpoint = "analyze"
    /\ IF req.len > MAX_FILE_SIZE
       THEN /\ response' = Raised(HTTPException(413, "File too large"))
            /\ pc' = "done"
       ELSE /\ response' = response
            /\ pc' = "decode"
    /\ UNCHANGED <<req, img, faces, all_zones, run, result_img, ret, calls>>

\* a decode step without the `if img is None` check
Decode_NoNoneCheck ==
    /\ pc = "decode" /\ req.endpoint \in {"process", "direct"}
    /\ calls' = Append(calls, "imdecode")
    /\ img' = imdecode(req)
    /\ response' = response
    /\ pc' = "locate"
    /\ UNCHANGED <<req, faces, all_zones, run, result_img, ret>>

\* processor.py 172-177
Decode ==
    /\ pc = "decode" /\ req.endpoint \in {"process", "direct"}
    /\ calls' = Append(calls, "imdecode")
    /\ img' = imdecode(req)
    /\ IF img' = NoImage
       THEN /\ response' = Raised(ValueError("Invalid image format"))
            /\ pc' = "done"
       ELSE /\ response' = response
            /\ pc' = "locate"
    /\ UNCHANGED <<req, faces, all_zones, run, result_img, ret>>

\* main.py 170-174
AnalyzeDecode ==
    /\ pc = "decode" /\ req.endpoint = "analyze"
    /\ calls' = Append(calls, "imdecode")
    /\ img' = imdecode(req)
    /\ IF img' = NoImage
       THEN /\ response' = Raised(ValueError("Invalid image format"))
            /\ pc' = "done"
       ELSE /\ response' = response
            /\ pc' = "locate"
    /\ UNCHANGED <<req, faces, all_zones, run, result_img, ret>>

\* a locate step without the `if not faces` check
Locate_NoEmptyCheck ==
    /\ pc = "locate" /\ req.endpoint \in {"process", "direct"}
    /\ \E cascade \in Detections(img) :
        /\ faces' = detect_faces(cascade)
        /\ calls' = Append(calls, "detect_faces")
    /\ response' = response
    /\ pc' = "zones"
    /\ UNCHANGED <<req, img, all_zones, run, result_img, ret>>

\* processor.py 179-184
Locate ==
    /\ pc = "locate" /\ req.endpoint \in {"process", "direct"}
    /\ \E cascade \in Detections(img) :
        /\ faces' = detect_faces(cascade)
        /\ calls' = Append(calls, "detect_faces")
        /\ IF Len(faces') = 0
           THEN /\ response' = Raised(ValueError("No faces detected in image"))
                /\ pc' = "done"
           ELSE /\ response' = response
                /\ pc' = "zones"
    /\ UNCHANGED <<req, img, all_zones, run, result_img, ret>>

\* main.py 176-186
AnalyzeLocate ==
    /\ pc = "locate" /\ req.endpoint = "analyze"
    /\ \E cascade \in Detections(img) :
        /\ faces' = detect_faces(cascade)
        /\ calls' = Append(calls, "detect_faces")
        /\ response' = [NoResponse EXCEPT
                          !.kind = "http", !.status = 200,
                          !.json = [faces_detected |-> Len(faces'),
                                    processable |-> Len(faces') > 0,
                                    width |-> img.w, height |-> img.h]]
    /\ pc' = "done"
    /\ UNCHANGED <<req, img, all_zones, run, result_img, ret>>

\* processor.py 186-190
CollectZones ==
    /\ pc = "zones"
    /\ all_zones' = collect_zones(faces, 1)
    /\ pc' = "transform"
    /\ UNCHANGED <<req, img, faces, run, result_img, ret, response, calls>>

\* processor.py 192-195
Transform ==
    /\ pc = "transform"
    /\ calls' = Append(calls, "process_image")
    /\ run' = process_image(img, all_zones, DrawNumbers(all_zones),
                            get_preset(req.mode), req.seed)
    /\ img' = IF run'.copied THEN img ELSE run'.imgs[Len(run'.imgs)]
    /\ IF run'.ok
       THEN /\ result_img' = run'.imgs[Len(run'.imgs)]
            /\ response' = response
            /\ pc' = "encode"
       ELSE /\ result_img' = result_img
            /\ response' = Raised(IndexError("index out of bounds"))
            /\ pc' = "done"
    /\ UNCHANGED <<req, faces, all_zones, ret>>

\* processor.py 197-212
Encode ==
    /\ pc = "encode"
    /\ calls' = Append(calls, "imencode")
    /\ LET mode == get_preset(req.mode)
       IN  ret' = [bytes |-> imencode(result_img),
                   metadata |->
                     [faces_processed |-> Len(faces),
                      zones_modified |-> Len(all_zones),
                      mode |-> mode.name,
                      settings |-> [blur_radius |-> mode.blur_radius,
                                    noise_strength |-> mode.noise_strength,
                                    asymmetry_shift |-> mode.asymmetry_shift]]]
    /\ pc' = "respond"
    /\ UNCHANGED <<req, img, faces, all_zones, run, result_img, response>>

\* main.py 114-130 (the StreamingResponse), or the return to a direct caller
Respond ==
    /\ pc = "respond"
    /\ response' = [NoResponse EXCEPT
                      !.kind = IF req.endpoint = "process" THEN "http" ELSE "return",
                      !.status = IF req.endpoint = "process" THEN 200 ELSE 0,
                      !.body = ret.bytes,
                      !.metadata = ret.metadata]
    /\ pc' = "done"
    /\ UNCHANGED <<req, img, faces, all_zones, run, result_img, ret, calls>>

Next ==
    \/ ProcessValidate
    \/ ProcessRead
    \/ AnalyzeRead
    \/ Decode
    \/ AnalyzeDecode
    \/ Locate
    \/ AnalyzeLocate
    \/ CollectZones
    \/ Transform
    \/ Encode
    \/ Respond

Spec == Init /\ [][Next]_vars

(* ------------------ direct calls of the FaceDetector ------------------- *)

\* detect_faces and get_processing_zones called on their own.  The image
\* enters detect_faces only through what the cascades return for it, so the
\* input of a call is that return value: one face box of any admissible
\* size, with or without an eye box.
BigFaceBoxes ==
    { <<fx, 3, fw, fh>> : fx \in {0, 7}, fw \in MIN_FACE..MaxFaceSide,
                          fh \in {MIN_FACE, MaxFaceSide} }

InitDetect ==
    /\ req = [endpoint |-> "detect_faces", content_type |-> "", mode |-> "genai_safe",
              len |-> 0, decodable |-> TRUE, seed |-> 1]
    /\ pc = "detect"
    /\ Blank

\* detector.py 22-77
DetectFacesCall ==
    /\ pc = "detect"
    /\ \E bbox \in BigFaceBoxes, eyes \in EyeLists :
        faces' = detect_faces(<< [bbox |-> bbox, eyes |-> eyes] >>)
    /\ calls' = Append(calls, "detect_faces")
    /\ pc' = "detected"
    /\ UNCHANGED <<req, img, all_zones, run, result_img, ret, response>>

\* detector.py 79-94
GetZonesCall ==
    /\ pc = "detected"
    /\ all_zones' = get_processing_zones(faces[1])
    /\ pc' = "done"
    /\ UNCHANGED <<req, img, faces, run, result_img, ret, response, calls>>

NextDetect == DetectFacesCall \/ GetZonesCall

SpecDetect == InitDetect /\ [][NextDetect]_vars

(* ------------------------------ properties ----------------------------- *)

Called(stage) == \E i \in 1..Len(calls) : calls[i] = stage

\* a call of process_face_image (through POST /process or directly)
IsProcessCall == req.endpoint \in {"process", "direct"}

\* the caller received process_face_image's output
Succeeded ==
    /\ IsProcessCall
    /\ \/ response.kind = "http" /\ response.status = 200
       \/ response.kind = "return"

\* the caller received the ValueError with this message
FailedWith(msg) ==
    \/ response.kind = "http" /\ response.status = 400 /\ response.detail = msg
    \/ response.kind = "raise" /\ response.detail = msg

\* process_image has returned
Transformed == Called("process_image") /\ run.ok

Stages == <<"imdecode", "detect_faces", "process_image", "imencode">>

\* C1: when decoding succeeded and detect_faces returned no face, the call
\* fails with "No faces detected in image", process_image is never invoked
\* and no bytes are returned; no success reports zero faces or zero zones.
C1_NoFaceRejected ==
    /\ (IsProcessCall /\ Called("detect_faces") /\ Len(faces) = 0) =>
          /\ img # NoImage
          /\ pc = "done"
          /\ FailedWith("No faces detected in image")
          /\ ~Called("process_image")
          /\ ret = NoReturn
          /\ response.body = NoBytes
    /\ Succeeded =>
          /\ response.metadata.faces_processed >= 1
          /\ response.metadata.zones_modified >= 1

C1_Witness ==
    /\ req.endpoint = "process" /\ img # NoImage
    /\ Called("detect_faces") /\ Len(faces) = 0
    /\ response.status = 400

\* C2: the stages run in the order decode, locate, transform, encode, each
\* at most once and each only after the one before it succeeded; a failed
\* decode ends with "Invalid image format"; a failure returns no bytes.
C2_StageOrder ==
    /\ \E n \in 0..Len(Stages) : calls = SubSeq(Stages, 1, n)
    /\ Called("detect_faces") => img # NoImage
    /\ IsProcessCall =>
          /\ Called("process_image") => Len(faces) >= 1
          /\ Called("imencode") => Transformed /\ result_img # NoImage
          /\ (Called("imdecode") /\ img = NoImage) =>
                 pc = "done" /\ FailedWith("Invalid image format")
          /\ (pc = "done" /\ ~Succeeded) => response.body = NoBytes
          /\ ret # NoReturn => Called("imencode")
          /\ response.body # NoBytes => Len(calls) = Len(Stages)

C2_Witness ==
    /\ Succeeded /\ calls = Stages /\ response.body # NoBytes

\* the eye zones plus one nose-bridge zone per face
RECURSIVE ZonesExpected(_, _)
ZonesExpected(fs, n) ==
    IF n > Len(fs) THEN 0 ELSE Len(fs[n].eyes) + 1 + ZonesExpected(fs, n + 1)

\* C3: on success faces_processed is the number of faces detect_faces
\* returned and zones_modified is the sum over them of (eyes + 1).
C3_MetadataCounts ==
    Succeeded =>
        /\ response.metadata.faces_processed = Len(faces)
        /\ response.metadata.zones_modified = ZonesExpected(faces, 1)
        /\ Len(faces) >= 1

C3_Witness ==
    /\ Succeeded
    /\ Len(faces) = 2
    /\ Len(faces[1].eyes) = 0 /\ Len(faces[2].eyes) = 1
    /\ response.metadata.zones_modified = 3

\* the registry of section 6, written out
RegistryEntry(mode_name) ==
    IF mode_name = "social_safe"
    THEN [name |-> "Social Safe", blur_radius |-> 3, noise_strength |-> 20,
          asymmetry_shift |-> 1]
    ELSE IF mode_name = "max_privacy"
    THEN [name |-> "Max Privacy", blur_radius |-> 7, noise_strength |-> 80,
          asymmetry_shift |-> 3]
    ELSE [name |-> "GenAI Safe", blur_radius |-> 5, noise_strength |-> 50,
          asymmetry_shift |-> 2]

ResolutionTotal ==
    \A m \in ModeNames : get_preset(m) = RegistryEntry(m)

MetadataOfResolved ==
    ret # NoReturn =>
        /\ ret.metadata.mode = RegistryEntry(req.mode).name
        /\ ret.metadata.settings.blur_radius = RegistryEntry(req.mode).blur_radius
        /\ ret.metadata.settings.noise_strength = RegistryEntry(req.mode).noise_strength
        /\ ret.metadata.settings.asymmetry_shift = RegistryEntry(req.mode).asymmetry_shift

\* C4 as stated: resolution is total over the registry with genai_safe as
\* the fallback, and no process call fails because the name is unknown.
C4_Original ==
    /\ ResolutionTotal
    /\ MetadataOfResolved
    /\ (IsProcessCall /\ req.mode \notin valid_modes /\ pc = "done") =>
          response.detail \in {"", "Unsupported format", "Invalid image format",
                               "No faces detected in image",
                               "Internal processing error. Please try again."}

\* C4 amended: resolution is total with genai_safe as the fallback and a
\* call of process_face_image never fails because the name is unknown;
\* POST /process rejects an unknown name with 400 "Invalid mode" before
\* process_face_image is called.
C4_ProfileResolution ==
    /\ ResolutionTotal
    /\ MetadataOfResolved
    /\ (req.endpoint = "direct" /\ pc = "done") =>
          \/ Succeeded
          \/ FailedWith("Invalid image format")
          \/ FailedWith("No faces detected in image")
    /\ (req.endpoint = "process" /\ req.mode \notin valid_modes /\ pc = "done"
        /\ req.content_type \in ALLOWED_FORMATS) =>
          /\ response.status = 400 /\ response.detail = "Invalid mode"
          /\ calls = << >>

C4_Witness ==
    /\ req.endpoint = "direct" /\ req.mode \notin valid_modes
    /\ Succeeded
    /\ response.metadata.mode = "GenAI Safe"

(* ---- the transformer's zones, crops and pixels in the current call ---- *)

Mode == get_preset(req.mode)
NumZones == Len(all_zones)
Crop(j) == CropOf(img, all_zones[j])
PixelIndex(px_x, px_y) == px_y * img.w + px_x + 1
CropPixels(c) ==
    { <<px_x, px_y>> \in (c.x0..(c.x0 + c.w - 1)) \X (c.y0..(c.y0 + c.h - 1)) : TRUE }
OnEdge(c, p) ==
    \/ p[1] = c.x0 \/ p[1] = c.x0 + c.w - 1
    \/ p[2] = c.y0 \/ p[2] = c.y0 + c.h - 1
CentreOf(c) == <<c.x0 + c.w \div 2, c.y0 + c.h \div 2>>
Covers(j, p) == InCrop(Crop(j), p[1], p[2])
Overlap(i, j) == \E p \in CropPixels(Crop(i)) : Covers(j, p)

\* the working image after zone j (j = 0: the copy of the input)
After(j) == run.imgs[j + 1]
ValueAt(im, p) == im.px[PixelIndex(p[1], p[2])]

\* the fully transformed (smoothed, noised, shifted) pixel of zone j at p
FullyTransformed(j, p) ==
    zone_processed(After(j - 1), Crop(j), all_zones[j], Mode, req.seed, j,
                   p[1] - Crop(j).x0, p[2] - Crop(j).y0)

C6_Original ==
    Transformed =>
        \A j \in 1..NumZones :
            /\ \A p \in CropPixels(Crop(j)) :
                  OnEdge(Crop(j), p) => ValueAt(result_img, p) = ValueAt(img, p)
            /\ ValueAt(result_img, CentreOf(Crop(j)))
                 = FullyTransformed(j, CentreOf(Crop(j)))

\* C6 amended: processing a zone leaves the outermost row and column of
\* its crop as the working image had them and puts the fully transformed
\* pixel at the crop's centre; in the final image an edge pixel that no
\* other zone's crop covers equals the input pixel, and a centre that no
\* later zone's crop covers equals the fully transformed pixel.
C6_Seam ==
    Transformed =>
        \A j \in 1..NumZones :
            /\ \A p \in CropPixels(Crop(j)) :
                  OnEdge(Crop(j), p) =>
                    /\ ValueAt(After(j), p) = ValueAt(After(j - 1), p)
                    /\ (\A k \in 1..NumZones : k # j => ~Covers(k, p)) =>
                          ValueAt(result_img, p) = ValueAt(img, p)
            /\ ValueAt(After(j), CentreOf(Crop(j)))
                 = FullyTransformed(j, CentreOf(Crop(j)))
            /\ (\A k \in (j + 1)..NumZones : ~Covers(k, CentreOf(Crop(j)))) =>
                  ValueAt(result_img, CentreOf(Crop(j)))
                   = FullyTransformed(j, CentreOf(Crop(j)))

C6_Witness ==
    /\ Transformed
    /\ \E j \in 1..NumZones :
          /\ ValueAt(result_img, CentreOf(Crop(j))) # ValueAt(img, CentreOf(Crop(j)))
          /\ ValueAt(result_img, CentreOf(Crop(j)))
               = FullyTransformed(j, CentreOf(Crop(j)))
          /\ \E p \in CropPixels(Crop(j)) :
                /\ OnEdge(Crop(j), p)
                /\ FullyTransformed(j, p) # ValueAt(img, p)
                /\ ValueAt(result_img, p) = ValueAt(img, p)

\* C7: process_image leaves its input as decoded, returns an image of the
\* same width and height, and changes no pixel outside the zones' crops.
C7_Frame ==
    Transformed =>
        /\ img = imdecode(req)
        /\ result_img.w = img.w /\ result_img.h = img.h
        /\ Len(result_img.px) = img.w * img.h
        /\ \A px_x \in 0..(img.w - 1), px_y \in 0..(img.h - 1) :
              (\A j \in 1..NumZones : ~Covers(j, <<px_x, px_y>>)) =>
                 ValueAt(result_img, <<px_x, px_y>>) = ValueAt(img, <<px_x, px_y>>)

C7_Witness ==
    /\ Transformed
    /\ result_img # img
    /\ \E px_x \in 0..(img.w - 1), px_y \in 0..(img.h - 1) :
          \A j \in 1..NumZones : ~Covers(j, <<px_x, px_y>>)

PairwiseDisjoint ==
    \A i, j \in 1..NumZones : i < j => ~Overlap(i, j)

Perms(n) ==
    { p \in [1..n -> 1..n] : \A a, b \in 1..n : a # b => p[a] # p[b] }

\* with pairwise disjoint crops every other order of the zones (each zone
\* keeping its noise draw) gives the same final image
PermutationInvariant ==
    (Transformed /\ PairwiseDisjoint) =>
        \A p \in Perms(NumZones) :
            (\E a \in 1..NumZones : p[a] # a) =>
                LET again == process_image(img, [a \in 1..NumZones |-> all_zones[p[a]]],
                                           p, Mode, req.seed)
                IN  again.imgs[Len(again.imgs)] = result_img

\* C8 as stated: permutation invariance for disjoint crops, and an
\* overlapped pixel holds the value the later zone computes from its own
\* crop of the input, whatever the earlier zone did.
C8_Original ==
    /\ PermutationInvariant
    /\ Transformed =>
          \A i, j \in 1..NumZones :
              (i < j /\ Overlap(i, j)) =>
                  LET alone == ProcessZone(img, all_zones[j], Mode, req.seed, j)
                  IN  \A p \in CropPixels(Crop(j)) :
                        (Covers(i, p) /\ \A k \in (j + 1)..NumZones : ~Covers(k, p)) =>
                            ValueAt(result_img, p) = ValueAt(alone, p)

\* C8 amended: permutation invariance for disjoint crops; an overlapped
\* pixel keeps the value the later zone wrote (last write wins), and that
\* value is blended from the working image, which holds the earlier zone's
\* result: where the later crop's outer edge meets it, the earlier zone's
\* value is what stays.
C8_LastWriteWins ==
    /\ PermutationInvariant
    /\ Transformed =>
          \A i, j \in 1..NumZones :
              (i < j /\ Overlap(i, j)) =>
                  \A p \in CropPixels(Crop(j)) :
                      /\ (Covers(i, p) /\ \A k \in (j + 1)..NumZones : ~Covers(k, p)) =>
                            ValueAt(result_img, p) = ValueAt(After(j), p)
                      /\ (Covers(i, p) /\ OnEdge(Crop(j), p)
                          /\ \A k \in 1..NumZones : (k # i /\ k # j) => ~Covers(k, p)) =>
                            ValueAt(result_img, p) = ValueAt(After(i), p)

C8_Witness ==
    /\ Transformed
    /\ \E i, j \in 1..NumZones :
          /\ i < j /\ Overlap(i, j)
          /\ \E p \in CropPixels(Crop(j)) :
                /\ Covers(i, p) /\ OnEdge(Crop(j), p)
                /\ \A k \in 1..NumZones : (k # i /\ k # j) => ~Covers(k, p)
                /\ ValueAt(result_img, p) # ValueAt(img, p)

C8_DisjointWitness ==
    /\ Transformed /\ NumZones = 2 /\ PairwiseDisjoint /\ result_img # img

\* C9 as stated: every face's nose-bridge box is
\* (x + floor(0.35 w), y + floor(0.30 h), floor(0.30 w), floor(0.30 h)), has
\* positive width and height, lies inside the face box, and is emitted as a
\* zone whether or not the face has eyes.
C9_NoseBridgeBox ==
    \A i \in 1..Len(faces) :
        LET b == faces[i].bbox
            nb == faces[i].nose_bridge
        IN  /\ b[3] >= MIN_FACE /\ b[4] >= MIN_FACE
            /\ nb = << b[1] + (35 * b[3]) \div 100, b[2] + (30 * b[4]) \div 100,
                       (30 * b[3]) \div 100, (30 * b[4]) \div 100 >>
            /\ nb[3] > 0 /\ nb[4] > 0
            /\ b[1] <= nb[1] /\ nb[1] + nb[3] <= b[1] + b[3]
            /\ b[2] <= nb[2] /\ nb[2] + nb[4] <= b[2] + b[4]
            /\ (pc = "done" /\ i = 1) =>
                  /\ Len(all_zones) = Len(faces[i].eyes) + 1
                  /\ all_zones[Len(all_zones)] = [name |-> "nose_bridge", bbox |-> nb]

\* the upload passed the checks made before the size check
ReachedSizeCheck ==
    \/ req.endpoint = "analyze"
    \/ (req.endpoint = "process" /\ req.content_type \in ALLOWED_FORMATS
                                 /\ req.mode \in valid_modes)

\* the request failed on the client's input: a rejected content type or
\* mode, bytes that do not decode, or an image without a face
ClientInputFailure ==
    \/ (req.endpoint = "process" /\ ~ReachedSizeCheck)
    \/ (req.len <= MAX_FILE_SIZE /\ ReachedSizeCheck /\ Called("imdecode")
          /\ img = NoImage)
    \/ (req.len <= MAX_FILE_SIZE /\ req.endpoint = "process"
          /\ Called("detect_faces") /\ Len(faces) = 0)

\* C10 as stated: an upload over MAX_FILE_SIZE is answered 413 and never
\* decoded or processed; 413 is returned exactly for oversize uploads, 400
\* exactly for client-input failures, and 500 only for internal failures.
C10_StatusCodes ==
    (pc = "done" /\ req.endpoint \in {"process", "analyze"}) =>
        /\ (ReachedSizeCheck /\ req.len > MAX_FILE_SIZE) =>
              (response.status = 413 /\ calls = << >>)
        /\ response.status = 413 => (ReachedSizeCheck /\ req.len > MAX_FILE_SIZE)
        /\ response.status = 400 <=> ClientInputFailure
        /\ response.status = 500 => (req.len <= MAX_FILE_SIZE /\ Called("imdecode"))
====
